---- MODULE Spec2Model ----
(***************************************************************************)
(* rust-context: the entry-classification pipeline of src/app.rs           *)
(* (resolve_config -> Scanner::new -> Scanner::scan -> OutputGenerator)    *)
(* and the default mode of the stand-alone binary src/main.rs.             *)
(*                                                                         *)
(* Text is a sequence of tokens; a token is a non-empty piece of a string, *)
(* so the empty string is <<>> and concatenation is \o.  A file or         *)
(* directory name is a sequence of one-character tokens, a path is a       *)
(* sequence of names, and an Option is a sequence of length 0 or 1.        *)
(***************************************************************************)
EXTENDS Integers, Sequences, FiniteSets, TLC

\* ---------------------------------------------------------------- bounds

\* Longest pattern list a preset or the command line supplies (SpecMerge).
MaxLen == 2
\* Most filesystem entries under the root.
MaxNodes == 3
\* Most entries hit by a fault (ignored, walk failure, unreadable) in one run.
MaxFaults == 1

\* ------------------------------------------------------------ sequences

Last(s) == s[Len(s)]

Front(s) == SubSeq(s, 1, Len(s) - 1)

Range(s) == {s[i] : i \in 1..Len(s)}

RECURSIVE Concat(_)
\* The concatenation of a sequence of texts.
Concat(ss) == IF ss = <<>> THEN <<>> ELSE Head(ss) \o Concat(Tail(ss))

RECURSIVE Join(_, _)
\* [T]::join(sep): the texts of ss with sep between consecutive ones.
Join(ss, sep) ==
    IF ss = <<>> THEN <<>>
    ELSE IF Len(ss) = 1 THEN Head(ss)
    ELSE Head(ss) \o sep \o Join(Tail(ss), sep)

RECURSIVE Repeat(_, _)
\* str::repeat(n)
Repeat(s, n) == IF n <= 0 THEN <<>> ELSE s \o Repeat(s, n - 1)

IsPrefix(p, s) == Len(p) <= Len(s) /\ SubSeq(s, 1, Len(p)) = p

SeqsUpTo(S, n) == UNION {[1..k -> S] : k \in 0..n}

\* ---------------------------------------------------------------- Option

None == <<>>

Some(x) == <<x>>

\* Option::unwrap_or_default for Option<Vec<_>>
UnwrapOrDefault(o) == IF o = None THEN <<>> ELSE o[1]

\* ------------------------------------------------------- names and paths

\* The byte of each character the model's names use.
CharCode ==
    [c \in {".", "/", "a", "b", "c", "e", "g", "i", "l", "r", "t"} |->
        CASE c = "." -> 46 [] c = "/" -> 47 [] c = "a" -> 97 [] c = "b" -> 98
          [] c = "c" -> 99 [] c = "e" -> 101 [] c = "g" -> 103 [] c = "i" -> 105
          [] c = "l" -> 108 [] c = "r" -> 114 [] c = "t" -> 116]

RECURSIVE NameLess(_, _)
\* OsStr ordering: byte-wise lexicographic, a proper prefix first.
NameLess(x, y) ==
    IF y = <<>> THEN FALSE
    ELSE IF x = <<>> THEN TRUE
    ELSE IF x[1] = y[1] THEN NameLess(Tail(x), Tail(y))
    ELSE CharCode[x[1]] < CharCode[y[1]]

RECURSIVE PathLess(_, _)
\* Path::cmp(a, b) = Less: component-wise lexicographic.
PathLess(p, q) ==
    IF q = <<>> THEN FALSE
    ELSE IF p = <<>> THEN TRUE
    ELSE IF p[1] = q[1] THEN PathLess(Tail(p), Tail(q))
    ELSE NameLess(p[1], q[1])

N_a == <<"a">>
N_bt == <<"b", ".", "t">>
N_git == <<".", "g", "i", "t">>
N_c == <<"c">>
N_cl == <<"c", ".", "l">>
N_e == <<".", "e">>

\* The absolute path of the project root (env::current_dir()).
Root == << <<"r">> >>

\* Every path, relative to the root, that a tree of the model may hold, and
\* whether it is a directory.
Universe ==
    { <<N_a>>, <<N_a, N_bt>>, <<N_a, N_git>>, <<N_a, N_git, N_c>>,
      <<N_cl>>, <<N_e>> }

Dirs == { <<N_a>>, <<N_a, N_git>> }

\* Path::is_dir
IsDir(rel) == rel \in Dirs

Parent(rel) == Front(rel)

\* The trees: subsets of the universe that hold the parent of every member.
Trees ==
    { t \in SUBSET Universe :
        /\ Cardinality(t) <= MaxNodes
        /\ \A p \in t : Len(p) > 1 => Parent(p) \in t }

\* Path::to_string_lossy of a relative path: its names joined by "/".
ToStringLossy(rel) == Join(rel, <<"/">>)

\* fs::read_to_string of a readable file: its text.
FileText(rel) == IF rel = <<N_e>> THEN <<>> ELSE <<"text of ">> \o ToStringLossy(rel)

\* ------------------------------------------------------------------ globs

\* A pattern is a sequence of tokens: a literal character, "*", "?", the
\* recursive suffix "/**", or "[" opening a character class that is never closed.
P_star == <<"*">>
P_t == <<"*", ".", "t">>
P_l == <<"*", ".", "l">>
P_a == <<"a">>
P_asub == <<"a", "/**">>
P_bad == <<"[">>

\* Glob::new(pat) is Ok: the pattern has no unclosed character class.
GlobValid(pat) == "[" \notin Range(pat)

RECURSIVE GlobMatch(_, _)
\* A compiled Glob against a candidate path string, with globset's defaults
\* (no literal_separator, so "*" and "?" also match "/"; "/**" is "/" and
\* anything after it).
GlobMatch(pat, s) ==
    IF pat = <<>> THEN s = <<>>
    ELSE IF pat[1] = "*" THEN
        \E k \in 0..Len(s) : GlobMatch(Tail(pat), SubSeq(s, k + 1, Len(s)))
    ELSE IF pat[1] = "?" THEN s # <<>> /\ GlobMatch(Tail(pat), Tail(s))
    ELSE IF pat[1] = "/**" THEN Len(pat) = 1 /\ s # <<>> /\ s[1] = "/"
    ELSE s # <<>> /\ s[1] = pat[1] /\ GlobMatch(Tail(pat), Tail(s))

\* build_globset(patterns) is Ok: every Glob::new succeeds.
BuildGlobsetOk(patterns) == \A i \in 1..Len(patterns) : GlobValid(patterns[i])

\* GlobSet::is_match: the path matches at least one pattern of the set.
IsMatch(globset, rel) ==
    \E i \in 1..Len(globset) : GlobMatch(globset[i], ToStringLossy(rel))

\* ----------------------------------------------------------------- config

RECURSIVE Retain(_, _)
\* Vec::retain(|item| seen.insert(item.clone())): keep an item the first time
\* it is seen.
Retain(items, seen) ==
    IF items = <<>> THEN <<>>
    ELSE IF Head(items) \in seen THEN Retain(Tail(items), seen)
    ELSE <<Head(items)>> \o Retain(Tail(items), seen \cup {Head(items)})

\* merge_vecs with the command line's list put before the preset's.
MergeVecsCliFirst(preset_vec, cli_vec) ==
    Retain(UnwrapOrDefault(cli_vec) \o UnwrapOrDefault(preset_vec), {})

\* merge_vecs: the preset's list, then the command line's, first occurrences kept.
merge_vecs(preset_vec, cli_vec) ==
    Retain(UnwrapOrDefault(preset_vec) \o UnwrapOrDefault(cli_vec), {})

\* PresetConfig::default()
DefaultPreset == [include |-> None, exclude |-> None, include_in_tree |-> None]

\* current_dir.file_name(): the name of the root directory.
ProjectName == IF Root = <<>> THEN None ELSE Some(Last(Root))

\* cli.preset.as_deref().or(project_name)
PresetKey(c) == IF c.preset # None THEN c.preset ELSE ProjectName

\* preset_key.and_then(|k| presets.get(k)).cloned().unwrap_or_default()
LookupPreset(store, key) ==
    IF key # None /\ key[1] \in DOMAIN store THEN store[key[1]] ELSE DefaultPreset

\* The RuntimeConfig resolve_config builds from the preset store and the
\* command line.
RuntimeConfig(store, c) ==
    LET preset == LookupPreset(store, PresetKey(c))
    IN [include |-> merge_vecs(preset.include, c.include),
        exclude |-> merge_vecs(preset.exclude, c.exclude),
        include_in_tree |-> merge_vecs(preset.include_in_tree, c.include_in_tree),
        tree_only_output |-> c.tree]

\* ---------------------------------------------------------------- scanner

\* The .git test of is_git_dir: the last component alone is looked at.
HasGitName(path) == path # <<>> /\ Last(path) = N_git

\* path.components().any(|c| c.as_os_str() == ".git")
HasGitComponent(path) == \E i \in 1..Len(path) : path[i] = N_git

\* process_entry with the exclude check placed after the include check, so
\* that an include match overrides it.
ProcessEntryIncludeFirst(sc, rel) ==
    LET path == sc.root \o rel
        matches_include == IsMatch(sc.include_set, rel)
        matches_tree == IsMatch(sc.tree_only_set, rel)
        is_dir == IsDir(rel)
    IN  IF path = sc.root THEN None
        ELSE IF HasGitComponent(path) THEN None
        ELSE IF ~matches_include /\ IsMatch(sc.exclude_set, rel) THEN None
        ELSE IF ~is_dir /\ ~matches_include /\ ~matches_tree THEN None
        ELSE Some([path |-> path,
                   relative_path |-> ToStringLossy(rel),
                   depth |-> Len(rel),
                   is_dir |-> is_dir,
                   include_content |-> ~is_dir /\ matches_include /\ ~matches_tree])

\* process_entry without the tree-only veto on content.
ProcessEntryNoVeto(sc, rel) ==
    LET path == sc.root \o rel
        matches_include == IsMatch(sc.include_set, rel)
        matches_tree == IsMatch(sc.tree_only_set, rel)
        is_dir == IsDir(rel)
    IN  IF path = sc.root THEN None
        ELSE IF HasGitComponent(path) THEN None
        ELSE IF IsMatch(sc.exclude_set, rel) THEN None
        ELSE IF ~is_dir /\ ~matches_include /\ ~matches_tree THEN None
        ELSE Some([path |-> path,
                   relative_path |-> ToStringLossy(rel),
                   depth |-> Len(rel),
                   is_dir |-> is_dir,
                   include_content |-> ~is_dir /\ matches_include])

\* process_entry with the retention test applied to directories too.
ProcessEntryDirsFiltered(sc, rel) ==
    LET path == sc.root \o rel
        matches_include == IsMatch(sc.include_set, rel)
        matches_tree == IsMatch(sc.tree_only_set, rel)
        is_dir == IsDir(rel)
    IN  IF path = sc.root THEN None
        ELSE IF HasGitComponent(path) THEN None
        ELSE IF IsMatch(sc.exclude_set, rel) THEN None
        ELSE IF ~matches_include /\ ~matches_tree THEN None
        ELSE Some([path |-> path,
                   relative_path |-> ToStringLossy(rel),
                   depth |-> Len(rel),
                   is_dir |-> is_dir,
                   include_content |-> ~is_dir /\ matches_include /\ ~matches_tree])

\* process_entry without the retention test: every surviving path is kept.
ProcessEntryKeepAll(sc, rel) ==
    LET path == sc.root \o rel
        matches_include == IsMatch(sc.include_set, rel)
        matches_tree == IsMatch(sc.tree_only_set, rel)
        is_dir == IsDir(rel)
    IN  IF path = sc.root THEN None
        ELSE IF HasGitComponent(path) THEN None
        ELSE IF IsMatch(sc.exclude_set, rel) THEN None
        ELSE Some([path |-> path,
                   relative_path |-> ToStringLossy(rel),
                   depth |-> Len(rel),
                   is_dir |-> is_dir,
                   include_content |-> ~is_dir /\ matches_include /\ ~matches_tree])

\* Scanner::process_entry: the FileEntry of a walked path, or None.
ProcessEntry(sc, rel) ==
    LET path == sc.root \o rel
        matches_include == IsMatch(sc.include_set, rel)
        matches_tree == IsMatch(sc.tree_only_set, rel)
        is_dir == IsDir(rel)
    IN  IF path = sc.root THEN None
        ELSE IF HasGitComponent(path) THEN None
        ELSE IF IsMatch(sc.exclude_set, rel) THEN None
        ELSE IF ~is_dir /\ ~matches_include /\ ~matches_tree THEN None
        ELSE Some([path |-> path,
                   relative_path |-> ToStringLossy(rel),
                   depth |-> Len(rel),
                   is_dir |-> is_dir,
                   include_content |-> ~is_dir /\ matches_include /\ ~matches_tree])

RECURSIVE Insert(_, _)
\* e placed after the entries of the sorted s that are not greater than it.
Insert(s, e) ==
    IF s = <<>> THEN <<e>>
    ELSE IF PathLess(e.path, Head(s).path) THEN <<e>> \o s
    ELSE <<Head(s)>> \o Insert(Tail(s), e)

\* scan without its sort: the entries stay in the order the walker gave.
SortByPathSkipped(s) == s

RECURSIVE SortByPathReversed(_)
\* The sort with its comparison turned round: b.path.cmp(&a.path).
SortByPathReversed(s) ==
    IF s = <<>> THEN <<>>
    ELSE LET rest == SortByPathReversed(Front(s))
             before == SelectSeq(rest, LAMBDA e : ~PathLess(e.path, Last(s).path))
             after == SelectSeq(rest, LAMBDA e : PathLess(e.path, Last(s).path))
         IN before \o <<Last(s)>> \o after

RECURSIVE SortByPath(_)
\* entries.sort_by(|a, b| a.path.cmp(&b.path)), a stable sort.
SortByPath(s) == IF s = <<>> THEN <<>> ELSE Insert(SortByPath(Front(s)), Last(s))

\* -------------------------------------------------------------- formatter

Indent == <<"    ">>

Newline == <<"\n">>

IsWhitespace(tok) == tok \in {"\n", "    "}

RECURSIVE TrimEnd(_)
\* str::trim_end
TrimEnd(s) ==
    IF s # <<>> /\ IsWhitespace(Last(s)) THEN TrimEnd(Front(s)) ELSE s

\* entry.path.file_name()
FileName(path) == IF path = <<>> THEN <<>> ELSE Last(path)

\* One line of generate_tree.
TreeLine(e) ==
    Repeat(Indent, IF e.depth >= 1 THEN e.depth - 1 ELSE 0)
        \o FileName(e.path) \o (IF e.is_dir THEN <<"/">> ELSE <<>>) \o Newline

\* OutputGenerator::generate_tree
GenerateTree(es) == TrimEnd(Concat([i \in 1..Len(es) |-> TreeLine(es[i])]))

\* The block of a content-eligible entry: its text, or the error marker when
\* fs::read_to_string fails.
Block(e, failing) ==
    IF SubSeq(e.path, Len(Root) + 1, Len(e.path)) \in failing
    THEN <<"<file path=\"">> \o e.relative_path
            \o <<"\" error=\"true\">Error reading file: ", "<error>", "</file>">>
    ELSE <<"<file path=\"">> \o e.relative_path \o <<"\">\n">>
            \o FileText(SubSeq(e.path, Len(Root) + 1, Len(e.path))) \o <<"\n</file>">>

\* The blocks vector of generate_content.
Blocks(es, failing) ==
    LET eligible == SelectSeq(es, LAMBDA e : e.include_content)
    IN [i \in 1..Len(eligible) |-> Block(eligible[i], failing)]

\* OutputGenerator::generate_content
GenerateContent(es, failing) == Join(Blocks(es, failing), <<"\n\n">>)

DsOpen == <<"<directory_structure>\n">>

DsClose == <<"\n</directory_structure>">>

FcOpen == <<"\n\n<file_contents>\n">>

FcClose == <<"\n</file_contents>">>

\* format_full_output without the test for empty content.
FormatFullOutputAlways(tree_str, content) ==
    DsOpen \o tree_str \o DsClose \o FcOpen \o content \o FcClose

\* OutputGenerator::format_full_output
FormatFullOutput(tree_str, content) ==
    DsOpen \o tree_str \o DsClose
        \o (IF content # <<>> THEN FcOpen \o content \o FcClose ELSE <<>>)

\* The final_output of run.
FinalOutput(cfg, es, failing) ==
    LET tree_str == GenerateTree(es)
    IN  IF cfg.tree_only_output THEN DsOpen \o tree_str \o DsClose
        ELSE FormatFullOutput(tree_str, GenerateContent(es, failing))

\* ------------------------------------------------------------------ state

VARIABLES
    tree,         \* the paths under the root, relative to it
    gitIgnored,   \* the paths the version-control ignore rules match
    walkFail,     \* the paths whose walk yields Err
    readFail,     \* the files fs::read_to_string (fs::read, from_utf8) fails on
    cli,          \* the parsed command line
    presetsFile,  \* presets.toml: "missing", "unreadable", "malformed" or "ok"
    presets,      \* the presets of a presets.toml that parses
    pc,           \* where run is
    config,       \* the RuntimeConfig, once resolved
    scanner,      \* the Scanner, once built
    yielded,      \* the paths the walker has yielded, in the order it did
    entries,      \* the entries vector of scan, then its return value
    warnings,     \* what log::warn! was called for, in order
    stdout,       \* what was written to standard output
    result        \* the Result run returned: "Ok" or "Err", or "none" before

vars ==
    <<tree, gitIgnored, walkFail, readFail, cli, presetsFile, presets, pc, config,
      scanner, yielded, entries, warnings, stdout, result>>

fsVars == <<tree, gitIgnored, walkFail, readFail>>

inputVars == <<cli, presetsFile, presets>>

K_p == <<"p">>

\* The preset stores of the model: one preset under the project's name, or
\* one under another name.
PresetStores ==
    { [k \in {Last(Root)} |->
          [include |-> Some(<<P_asub>>), exclude |-> None, include_in_tree |-> None]],
      [k \in {K_p} |->
          [include |-> None, exclude |-> Some(<<P_l>>),
           include_in_tree |-> Some(<<P_t>>)]],
      [k \in {K_p} |->
          [include |-> None, exclude |-> Some(<<P_bad>>), include_in_tree |-> None]] }

NoConfig == [include |-> <<>>, exclude |-> <<>>, include_in_tree |-> <<>>,
             tree_only_output |-> FALSE]

NoScanner == [root |-> <<>>, include_set |-> <<>>, exclude_set |-> <<>>,
              tree_only_set |-> <<>>]

\* The state of a run that has not started, over a filesystem and inputs
\* chosen elsewhere.
InitRun ==
    /\ pc = "start"
    /\ config = NoConfig
    /\ scanner = NoScanner
    /\ yielded = <<>>
    /\ entries = <<>>
    /\ warnings = <<>>
    /\ stdout = <<>>
    /\ result = "none"

\* The paths of the model that a fault may hit.
IgnoreCandidates == { <<N_a>>, <<N_e>> }

WalkFailCandidates == { <<N_a>>, <<N_a, N_bt>>, <<N_cl>> }

ReadFailCandidates == { <<N_a, N_bt>>, <<N_e>> }

InitFs ==
    /\ tree \in Trees
    /\ gitIgnored \in SUBSET (tree \cap IgnoreCandidates)
    /\ walkFail \in SUBSET (tree \cap WalkFailCandidates)
    /\ readFail \in SUBSET (tree \cap ReadFailCandidates)
    /\ Cardinality(gitIgnored) + Cardinality(walkFail) + Cardinality(readFail)
          <= MaxFaults

InitInputs ==
    /\ cli \in [preset : {None, Some(K_p)},
                tree : BOOLEAN,
                include : {None, Some(<<P_star>>), Some(<<P_t>>), Some(<<P_bad>>)},
                include_in_tree : {None, Some(<<P_t>>), Some(<<P_bad>>)},
                exclude : {None, Some(<<P_l>>), Some(<<P_a>>)}]
    /\ presetsFile \in {"missing", "unreadable", "malformed", "ok"}
    /\ IF presetsFile = "ok" THEN presets \in PresetStores
       ELSE presets = <<>> /\ cli.preset = None

\* run is entered with the arguments parsed (Cli::parse) and the current
\* directory found (env::current_dir): the root is Root.
Init == InitFs /\ InitInputs /\ InitRun

\* ---------------------------------------------------------------- actions

\* load_presets_file is Ok: there is no presets.toml, or it parses.
LoadPresetsOk == presetsFile \in {"missing", "ok"}

\* load_presets_file
LoadPresets == IF presetsFile = "ok" THEN presets ELSE <<>>

\* run, lines 29-36: the configuration resolves, with the tip when there is
\* nothing to include.
ResolveConfig ==
    /\ pc = "start"
    /\ LoadPresetsOk
    /\ config' = RuntimeConfig(LoadPresets, cli)
    /\ warnings' = IF config'.include = <<>> /\ config'.include_in_tree = <<>>
                   THEN Append(warnings, "tip") ELSE warnings
    /\ pc' = "resolved"
    /\ UNCHANGED <<fsVars, inputVars, scanner, yielded, entries, stdout, result>>

\* run, line 29: resolve_config fails and run returns its error.
ResolveConfigErr ==
    /\ pc = "start"
    /\ ~LoadPresetsOk
    /\ pc' = "done"
    /\ result' = "Err"
    /\ UNCHANGED <<fsVars, inputVars, config, scanner, yielded, entries, warnings,
                   stdout>>

\* Scanner::new building the include and tree-only sets with `?` and the
\* exclude set with a fallback to the empty set.
ScannerNewOkExcludeUnchecked(cfg) ==
    /\ BuildGlobsetOk(cfg.include)
    /\ BuildGlobsetOk(cfg.include_in_tree)

\* Scanner::new is Ok: the three globsets build.
ScannerNewOk(cfg) ==
    /\ BuildGlobsetOk(cfg.include)
    /\ BuildGlobsetOk(cfg.exclude)
    /\ BuildGlobsetOk(cfg.include_in_tree)

\* run, line 39: the scanner is built.
ScannerNew ==
    /\ pc = "resolved"
    /\ ScannerNewOk(config)
    /\ scanner' = [root |-> Root, include_set |-> config.include,
                   exclude_set |-> config.exclude,
                   tree_only_set |-> config.include_in_tree]
    /\ pc' = "scanning"
    /\ UNCHANGED <<fsVars, inputVars, config, yielded, entries, warnings, stdout,
                   result>>

\* run, line 39: a pattern does not compile and run returns the error.
ScannerNewErr ==
    /\ pc = "resolved"
    /\ ~ScannerNewOk(config)
    /\ pc' = "done"
    /\ result' = "Err"
    /\ UNCHANGED <<fsVars, inputVars, config, scanner, yielded, entries, warnings,
                   stdout>>

\* The directories the walker has entered: the root and every directory it
\* yielded without an error.
Opened(done) == {d \in done : (d = <<>> \/ IsDir(d)) /\ d \notin walkFail}

\* The children of d the walker has still to yield; it never yields an
\* ignored path, and so nothing beneath one.
Pending(d, done) ==
    {x \in tree : x \notin done /\ x \notin gitIgnored /\ Parent(x) = d}

\* What the depth-first walker may yield next: the root first, then a child
\* of the deepest entered directory that has children left, in any order.
NextEntries(done) ==
    IF <<>> \notin done THEN {<<>>}
    ELSE {x \in tree :
            /\ Parent(x) \in Opened(done)
            /\ x \in Pending(Parent(x), done)
            /\ \A d \in Opened(done) :
                  Pending(d, done) # {} => IsPrefix(d, Parent(x))}

\* scan, lines 35-41: the walker yields an entry and it is classified.
WalkOk ==
    /\ pc = "scanning"
    /\ \E x \in NextEntries(Range(yielded)) :
          /\ x \notin walkFail
          /\ yielded' = Append(yielded, x)
          /\ entries' = entries \o ProcessEntry(scanner, x)
    /\ UNCHANGED <<fsVars, inputVars, pc, config, scanner, warnings, stdout, result>>

\* scan, line 42: the walker yields an error, which is logged.
WalkErr ==
    /\ pc = "scanning"
    /\ \E x \in NextEntries(Range(yielded)) :
          /\ x \in walkFail
          /\ yielded' = Append(yielded, x)
    /\ warnings' = Append(warnings, "walk")
    /\ UNCHANGED <<fsVars, inputVars, pc, config, scanner, entries, stdout, result>>

\* scan, lines 46-48: the walk is over; the entries are sorted and returned.
ScanFinish ==
    /\ pc = "scanning"
    /\ NextEntries(Range(yielded)) = {}
    /\ entries' = SortByPath(entries)
    /\ pc' = "scanned"
    /\ UNCHANGED <<fsVars, inputVars, config, scanner, yielded, warnings, stdout,
                   result>>

\* run, lines 42-45: nothing was kept.
RunEmpty ==
    /\ pc = "scanned"
    /\ entries = <<>>
    /\ warnings' = Append(warnings, "empty")
    /\ pc' = "done"
    /\ result' = "Ok"
    /\ UNCHANGED <<fsVars, inputVars, config, scanner, yielded, entries, stdout>>

\* run, lines 47-63: the document is rendered and printed.
RunOutput ==
    /\ pc = "scanned"
    /\ entries # <<>>
    /\ stdout' = stdout \o FinalOutput(config, entries, readFail) \o Newline
    /\ pc' = "done"
    /\ result' = "Ok"
    /\ UNCHANGED <<fsVars, inputVars, config, scanner, yielded, entries, warnings>>

Next ==
    \/ ResolveConfig
    \/ ResolveConfigErr
    \/ ScannerNew
    \/ ScannerNewErr
    \/ WalkOk
    \/ WalkErr
    \/ ScanFinish
    \/ RunEmpty
    \/ RunOutput

Spec == Init /\ [][Next]_vars

\* ------------------------------------------- src/main.rs, the default mode

\* The stand-alone binary keeps its list of files (non_ignored_files, then
\* all_files) in entries, as absolute paths, and what it writes to standard
\* error in warnings.  Its command line holds plain vectors; the model covers
\* the runs with neither --tree nor --json, in a repository that
\* find_git_root and Repository::open find.

\* is_git_dir
IsGitDir(rel) == rel # <<>> /\ Last(rel) = N_git

\* repo.is_path_ignored: the path or a directory above it is ignored.
IsPathIgnored(rel) == \E k \in 1..Len(rel) : SubSeq(rel, 1, k) \in gitIgnored

\* Pattern::matches of at least one pattern of a list.
AnyMatches(patterns, rel) ==
    \E i \in 1..Len(patterns) : GlobMatch(patterns[i], ToStringLossy(rel))

\* Pattern::new succeeds on every string of a list.
PatternsOk(patterns) == \A i \in 1..Len(patterns) : GlobValid(patterns[i])

\* all_include_patterns
AllIncludePatterns(c) == c.include \o c.include_in_tree

\* list_non_ignored_files, lines 102-142: whether a walked entry is pushed.
Listed(c, rel) ==
    /\ ~IsDir(rel)
    /\ rel # <<>>
    /\ ~IsPathIgnored(rel)
    /\ ~AnyMatches(c.exclude, rel)
    /\ AllIncludePatterns(c) = <<>> \/ AnyMatches(AllIncludePatterns(c), rel)

\* The children of d that walkdir has still to yield; filter_entry skips a
\* .git directory and everything in it.
MainPending(d, done) == {x \in tree : x \notin done /\ ~IsGitDir(x) /\ Parent(x) = d}

\* What walkdir may yield next.
MainNextEntries(done) ==
    IF <<>> \notin done THEN {<<>>}
    ELSE {x \in tree :
            /\ Parent(x) \in Opened(done)
            /\ x \in MainPending(Parent(x), done)
            /\ \A d \in Opened(done) :
                  MainPending(d, done) # {} => IsPrefix(d, Parent(x))}

\* main, lines 305-351: the files whose contents are written.
ContentFiles(c, files) ==
    IF c.include = <<>> THEN (IF c.include_in_tree = <<>> THEN files ELSE <<>>)
    ELSE SelectSeq(files, LAMBDA path :
            LET rel == SubSeq(path, Len(Root) + 1, Len(path))
            IN  AnyMatches(c.include, rel) /\ ~AnyMatches(c.include_in_tree, rel))

\* get_file_contents, lines 171-174: what it appends for one file.
MainBlock(path) ==
    LET rel == SubSeq(path, Len(Root) + 1, Len(path))
    IN  <<"<file src=\"">> \o ToStringLossy(rel) \o <<"\">\n">> \o FileText(rel)
            \o <<"</file>\n">>

\* get_file_contents is Ok: fs::read and String::from_utf8 succeed on every file.
GetFileContentsOk(files) == \A i \in 1..Len(files) : 
    SubSeq(files[i], Len(Root) + 1, Len(files[i])) \notin readFail

\* get_file_contents, when Ok
GetFileContents(files) == Concat([i \in 1..Len(files) |-> MainBlock(files[i])])

InitMain ==
    /\ InitFs
    /\ InitRun
    /\ presetsFile = "missing"
    /\ presets = <<>>
    /\ cli \in [include : {<<>>, <<P_star>>, <<P_t>>, <<P_bad>>},
                exclude : {<<>>, <<P_l>>, <<P_a>>},
                include_in_tree : {<<>>, <<P_t>>},
                tree : {FALSE},
                json : {FALSE}]

\* list_non_ignored_files, lines 89-99: the patterns compile and the walk starts.
MainListStart ==
    /\ pc = "start"
    /\ PatternsOk(AllIncludePatterns(cli)) /\ PatternsOk(cli.exclude)
    /\ pc' = "scanning"
    /\ UNCHANGED <<fsVars, inputVars, config, scanner, yielded, entries, warnings,
                   stdout, result>>

\* main, lines 267-273: a pattern is invalid; the error is printed to
\* standard error and main returns.
MainListInvalidGlob ==
    /\ pc = "start"
    /\ ~(PatternsOk(AllIncludePatterns(cli)) /\ PatternsOk(cli.exclude))
    /\ warnings' = Append(warnings, "Error listing files")
    /\ pc' = "done"
    /\ result' = "Ok"
    /\ UNCHANGED <<fsVars, inputVars, config, scanner, yielded, entries, stdout>>

\* list_non_ignored_files, lines 100-143: the walk yields an entry.
MainWalkOk ==
    /\ pc = "scanning"
    /\ \E x \in MainNextEntries(Range(yielded)) :
          /\ x \notin walkFail
          /\ yielded' = Append(yielded, x)
          /\ entries' = IF Listed(cli, x) THEN Append(entries, Root \o x) ELSE entries
    /\ UNCHANGED <<fsVars, inputVars, pc, config, scanner, warnings, stdout, result>>

\* list_non_ignored_files, line 101: the walk yields an error, `?` returns
\* it, and main prints it to standard error and returns (lines 267-273).
MainWalkErr ==
    /\ pc = "scanning"
    /\ \E x \in MainNextEntries(Range(yielded)) :
          /\ x \in walkFail
          /\ yielded' = Append(yielded, x)
    /\ warnings' = Append(warnings, "Error listing files")
    /\ pc' = "done"
    /\ result' = "Ok"
    /\ UNCHANGED <<fsVars, inputVars, config, scanner, entries, stdout>>

\* main, lines 303-358: the walk is over and every content file is read; the
\* blocks are printed.
MainContents ==
    /\ pc = "scanning"
    /\ MainNextEntries(Range(yielded)) = {}
    /\ GetFileContentsOk(ContentFiles(cli, entries))
    /\ stdout' = stdout \o GetFileContents(ContentFiles(cli, entries))
    /\ pc' = "done"
    /\ result' = "Ok"
    /\ UNCHANGED <<fsVars, inputVars, config, scanner, yielded, entries, warnings>>

\* main, lines 353-358, and get_file_contents, lines 164-168: a content file
\* cannot be read or decoded; `?` returns the error and main prints it to
\* standard error, and nothing to standard output.
MainContentsErr ==
    /\ pc = "scanning"
    /\ MainNextEntries(Range(yielded)) = {}
    /\ ~GetFileContentsOk(ContentFiles(cli, entries))
    /\ warnings' = Append(warnings, "Error processing file contents")
    /\ pc' = "done"
    /\ result' = "Ok"
    /\ UNCHANGED <<fsVars, inputVars, config, scanner, yielded, entries, stdout>>

NextMain ==
    \/ MainListStart
    \/ MainListInvalidGlob
    \/ MainWalkOk
    \/ MainWalkErr
    \/ MainContents
    \/ MainContentsErr

SpecMain == InitMain /\ [][NextMain]_vars

\* -------------------------------------------------- resolve_config alone

Fields == {"include", "exclude", "include_in_tree"}

\* The pattern lists of one field that the merge is tried on, and the few
\* the other two fields take meanwhile.
MergeLists == {None} \cup {Some(l) : l \in SeqsUpTo({P_star, P_t, P_l}, MaxLen)}

NarrowLists == {None, Some(<<P_a>>)}

\* resolve_config over every pair of lists of one field, with no tree to scan.
InitMerge ==
    /\ InitRun
    /\ tree = {} /\ gitIgnored = {} /\ walkFail = {} /\ readFail = {}
    /\ presetsFile \in {"ok", "missing", "malformed"}
    /\ \E f \in Fields, wc \in MergeLists, wp \in MergeLists,
          nc \in [Fields -> NarrowLists], np \in [Fields -> NarrowLists],
          key \in {None, Some(K_p)}, name \in {Last(Root), K_p} :
          /\ cli = [preset |-> key, tree |-> FALSE,
                    include |-> IF f = "include" THEN wc ELSE nc["include"],
                    exclude |-> IF f = "exclude" THEN wc ELSE nc["exclude"],
                    include_in_tree |->
                        IF f = "include_in_tree" THEN wc ELSE nc["include_in_tree"]]
          /\ IF presetsFile = "ok"
             THEN presets = [k \in {name} |->
                    [include |-> IF f = "include" THEN wp ELSE np["include"],
                     exclude |-> IF f = "exclude" THEN wp ELSE np["exclude"],
                     include_in_tree |->
                        IF f = "include_in_tree" THEN wp ELSE np["include_in_tree"]]]
             ELSE presets = <<>>

NextMerge == ResolveConfig \/ ResolveConfigErr

SpecMerge == InitMerge /\ [][NextMerge]_vars

\* ----------------------------------------------------------------- claims

\* The path of an entry relative to the root.
RelOf(e) == SubSeq(e.path, Len(Root) + 1, Len(e.path))

\* The relative paths of the entries of the collection.
Kept == {RelOf(entries[i]) : i \in 1..Len(entries)}

\* The paths the walker yielded without an error, the root apart.
Visited == {x \in Range(yielded) : x # <<>> /\ x \notin walkFail}

\* doc holds s at position k.
HoldsAt(doc, s, k) == k + Len(s) - 1 <= Len(doc) /\ SubSeq(doc, k, k + Len(s) - 1) = s

Contains(doc, s) == \E k \in 1..Len(doc) : HoldsAt(doc, s, k)

\* doc holds a block, of content or of error, tagged with the relative path rel.
HasBlockFor(doc, rel) ==
    \/ Contains(doc, <<"<file path=\"">> \o ToStringLossy(rel) \o <<"\">\n">>)
    \/ Contains(doc, <<"<file path=\"">> \o ToStringLossy(rel)
                        \o <<"\" error=\"true\">Error reading file: ">>)

\* The scan has returned.
ScanReturned == pc = "scanned" \/ (pc = "done" /\ scanner # NoScanner)

\* rel matches at least one pattern of an effective list of the configuration.
Matches(list, rel) ==
    \E i \in 1..Len(list) : GlobMatch(list[i], ToStringLossy(rel))

\* C1: no entry of the collection has a relative path that matches the
\* exclude list, whatever else the path matches and whether it is a file or
\* a directory, and the document holds no content block for such a path.
C1_ExcludedNeverKept ==
    /\ \A i \in 1..Len(entries) :
          ~\E j \in 1..Len(config.exclude) :
              GlobMatch(config.exclude[j], entries[i].relative_path)
    /\ \A x \in tree : Matches(config.exclude, x) => ~HasBlockFor(stdout, x)

\* C1's case: the walker yielded a file matching exclude and include, and a
\* directory matching exclude, and the document was written.
C1_Witness ==
    /\ pc = "done" /\ stdout # <<>>
    /\ \E x \in Visited :
          ~IsDir(x) /\ Matches(config.exclude, x) /\ Matches(config.include, x)
    /\ \E d \in Visited : IsDir(d) /\ Matches(config.exclude, d)

\* C2: an entry of the collection is content-eligible exactly when it is not
\* a directory, matches include and does not match tree-only; a kept file
\* matching both is in the collection and has no content block.
C2_ContentEligibility ==
    /\ \A i \in 1..Len(entries) :
          LET x == RelOf(entries[i])
          IN  /\ entries[i].is_dir <=> x \in Dirs
              /\ entries[i].include_content <=>
                    (/\ x \notin Dirs
                     /\ Matches(config.include, x)
                     /\ ~Matches(config.include_in_tree, x))
    /\ \A x \in Visited :
          (/\ ScanReturned
           /\ ~IsDir(x) /\ ~HasGitComponent(x) /\ ~Matches(config.exclude, x)
           /\ Matches(config.include, x) /\ Matches(config.include_in_tree, x))
          => x \in Kept /\ ~HasBlockFor(stdout, x)

\* C2's case: a document in full mode over a collection holding a file that
\* matches include and tree-only, and a content-eligible file.
C2_Witness ==
    /\ pc = "done" /\ stdout # <<>> /\ ~config.tree_only_output
    /\ \E i, j \in 1..Len(entries) :
          /\ Matches(config.include, RelOf(entries[i]))
          /\ Matches(config.include_in_tree, RelOf(entries[i]))
          /\ ~entries[i].is_dir
          /\ entries[j].include_content

\* What the classification keeps of a visited path that is outside .git and
\* does not match exclude.
Survives(x) == x \in Visited /\ ~HasGitComponent(x) /\ ~Matches(config.exclude, x)

\* C3: a visited path outside .git that does not match exclude is kept if it
\* is a directory, and, if it is a file, exactly when it matches include or
\* tree-only.
C3_Retention ==
    pc \in {"scanning", "scanned", "done"} =>
        \A x \in tree :
            Survives(x) =>
                IF IsDir(x) THEN x \in Kept
                ELSE x \in Kept <=>
                        (Matches(config.include, x) \/ Matches(config.include_in_tree, x))

\* C3's case: the scan returned a directory that matches neither list, kept
\* one file and dropped another.
C3_Witness ==
    /\ ScanReturned
    /\ \E d, f, g \in tree :
          /\ Survives(d) /\ IsDir(d) /\ d \in Kept
          /\ ~Matches(config.include, d) /\ ~Matches(config.include_in_tree, d)
          /\ Survives(f) /\ ~IsDir(f) /\ f \in Kept
          /\ Survives(g) /\ ~IsDir(g) /\ g \notin Kept

\* An entry lies beneath the directory d.
Descendant(d, e) == e.path # d.path /\ IsPrefix(d.path, e.path)

\* C4: in the collection the scan returns, every directory comes before
\* every entry beneath it.
C4_ParentBeforeChild ==
    ScanReturned =>
        \A i, j \in 1..Len(entries) :
            (entries[i].is_dir /\ Descendant(entries[i], entries[j])) => i < j

\* The walker yielded the kept paths in the order of the collection.
YieldedInOrder ==
    \A i, j \in 1..Len(yielded) :
        (i < j /\ yielded[i] \in Kept /\ yielded[j] \in Kept)
            => PathLess(yielded[i], yielded[j])

\* C4's case: the scan returned a directory and an entry beneath it, having
\* been yielded the entries in another order than the collection's.
C4_Witness ==
    /\ ScanReturned
    /\ ~YieldedInOrder
    /\ \E i, j \in 1..Len(entries) :
          entries[i].is_dir /\ Descendant(entries[i], entries[j])

\* The preset that applies to the run: the one under --preset, else under the
\* project's name, else none.
AppliedPreset ==
    LET key == IF cli.preset # None THEN cli.preset[1] ELSE Last(Root)
    IN  IF presetsFile = "ok" /\ key \in DOMAIN presets THEN presets[key]
        ELSE [include |-> None, exclude |-> None, include_in_tree |-> None]

\* The preset's list of a field followed by the command line's, an absent
\* list giving nothing.
Concatenated(f) ==
    (IF AppliedPreset[f] = None THEN <<>> ELSE AppliedPreset[f][1])
        \o (IF cli[f] = None THEN <<>> ELSE cli[f][1])

\* The first position of x in s.
FirstIndex(s, x) == CHOOSE i \in 1..Len(s) : s[i] = x /\ \A k \in 1..(i - 1) : s[k] # x

\* out is s with every later duplicate removed.
IsFirstOccurrences(out, s) ==
    /\ \A i, j \in 1..Len(out) : i # j => out[i] # out[j]
    /\ Range(out) = Range(s)
    /\ \A i, j \in 1..Len(out) : i < j => FirstIndex(s, out[i]) < FirstIndex(s, out[j])

\* C5: each effective list is the applied preset's list followed by the
\* command line's with every later duplicate removed.
C5_MergeDedup ==
    pc = "resolved" => \A f \in Fields : IsFirstOccurrences(config[f], Concatenated(f))

\* C5's case: a preset list and a command-line list that share a pattern and
\* each bring one of their own were merged.
C5_Witness ==
    /\ pc = "resolved"
    /\ \E f \in Fields :
          /\ AppliedPreset[f] # None /\ cli[f] # None
          /\ Range(AppliedPreset[f][1]) \cap Range(cli[f][1]) # {}
          /\ Range(AppliedPreset[f][1]) \ Range(cli[f][1]) # {}
          /\ Range(cli[f][1]) \ Range(AppliedPreset[f][1]) # {}
          /\ Len(config[f]) < Len(Concatenated(f))

\* Nothing is to be included: both effective lists are empty.
BothEmpty == config.include = <<>> /\ config.include_in_tree = <<>>

\* C6 as the specification states it: with both lists empty the collection
\* the scan returns is empty, the warning is logged and run returns Ok.
C6_Original ==
    (ScanReturned /\ BothEmpty) =>
        /\ entries = <<>>
        /\ "tip" \in Range(warnings)
        /\ pc = "done" => result = "Ok"

\* C6, amended: with both lists empty the collection holds no file, only the
\* surviving directories, so it is empty exactly when there is none; the
\* warning is logged and run returns Ok.
C6_OnlyDirectories ==
    (ScanReturned /\ BothEmpty) =>
        /\ \A i \in 1..Len(entries) : entries[i].is_dir
        /\ entries = <<>> <=> ~\E d \in tree : Survives(d) /\ IsDir(d)
        /\ "tip" \in Range(warnings)
        /\ pc = "done" => result = "Ok"

\* C6's case: a run with both lists empty that visited a file and a
\* directory and has ended.
C6_Witness ==
    /\ pc = "done" /\ scanner # NoScanner /\ BothEmpty
    /\ \E f, d \in Visited : ~IsDir(f) /\ IsDir(d) /\ Survives(d) /\ Survives(f)

\* C7: a run whose collection is empty returns Ok and has written a document
\* of an empty directory_structure section and nothing else.
C7_EmptyStillWritesDocument ==
    (pc = "done" /\ scanner # NoScanner /\ entries = <<>>) =>
        /\ result = "Ok"
        /\ stdout = DsOpen \o DsClose \o Newline

\* A content block was produced: the collection holds a content-eligible entry.
SomeEligible == \E i \in 1..Len(entries) : entries[i].include_content

\* C8: a document begins with the tree text between the directory_structure
\* delimiters, and holds a file_contents section, right after it and to the
\* end, exactly when tree-only mode is off and a content block was produced;
\* it never holds an empty file_contents pair.
C8_DocumentShape ==
    stdout # <<>> =>
        LET head == DsOpen \o GenerateTree(entries) \o DsClose
        IN  /\ IsPrefix(head, stdout)
            /\ Contains(stdout, FcOpen) <=> (~config.tree_only_output /\ SomeEligible)
            /\ Contains(stdout, FcOpen) =>
                  /\ HoldsAt(stdout, FcOpen, Len(head) + 1)
                  /\ HoldsAt(stdout, FcClose \o Newline, Len(stdout) - 1)
            /\ ~Contains(stdout, FcOpen) => stdout = head \o Newline
            /\ ~Contains(stdout, FcOpen \o FcClose)

\* C8's case: a document written in full mode over a collection with no
\* content-eligible entry.
C8_Witness ==
    /\ pc = "done" /\ stdout # <<>>
    /\ ~config.tree_only_output /\ ~SomeEligible

\* A pattern of an effective list has invalid glob syntax.
InvalidPattern ==
    \E f \in Fields : \E i \in 1..Len(Concatenated(f)) : "[" \in Range(Concatenated(f)[i])

\* The configuration is in error: the preset source cannot be read or parsed,
\* or a pattern is invalid.
ConfigError == presetsFile \in {"malformed", "unreadable"} \/ InvalidPattern

\* C10: in a run with a configuration error nothing is walked or classified,
\* nothing is written to standard output, and the run goes on until it
\* returns Err.
C10_ConfigErrorFatal ==
    ConfigError =>
        /\ yielded = <<>> /\ entries = <<>> /\ stdout = <<>>
        /\ pc \in {"start", "resolved", "done"}
        /\ pc = "done" => result = "Err"
        /\ pc # "done" => ENABLED Next

\* C10's case: a run over a tree that is not empty, with a preset source
\* that parses and an invalid pattern in the exclude list alone, has ended.
C10_Witness ==
    /\ pc = "done" /\ result = "Err" /\ tree # {}
    /\ presetsFile = "ok"
    /\ \E i \in 1..Len(Concatenated("exclude")) : "[" \in Range(Concatenated("exclude")[i])
    /\ \A f \in {"include", "include_in_tree"} :
          \A i \in 1..Len(Concatenated(f)) : "[" \notin Range(Concatenated(f)[i])

\* The number of places where doc holds s.
Count(doc, s) == Cardinality({k \in 1..Len(doc) : HoldsAt(doc, s, k)})

\* The files the walk of src/main.rs reaches when no failure stops it: not
\* in .git, with no failing directory above them, and not failing themselves.
MainReached ==
    {x \in tree :
        /\ ~HasGitComponent(x)
        /\ \A k \in 1..Len(x) : SubSeq(x, 1, k) \notin walkFail}

\* The content-eligible files of src/main.rs among those the walk reaches.
MainEligible ==
    {x \in MainReached :
        /\ Listed(cli, x)
        /\ IF cli.include = <<>> THEN cli.include_in_tree = <<>>
           ELSE AnyMatches(cli.include, x) /\ ~AnyMatches(cli.include_in_tree, x)}

\* Standard output holds exactly one block for every content-eligible file
\* the walk of src/main.rs reaches, a failing file's block included.
MainOneBlockEach ==
    (pc = "done" /\ yielded # <<>>) =>
        \A x \in MainEligible :
            Count(stdout, <<"<file src=\"">> \o ToStringLossy(x)) = 1

\* C9 on src/main.rs, for a read or decoding failure: in a run where no walk
\* fails, no failure to read one file stops the run; the document is written
\* and holds exactly one block for every content-eligible file.
C9_MainReadFailureIsolated == walkFail = {} => MainOneBlockEach

\* C9 on src/main.rs, for a walk failure: in a run where no read fails, a
\* walk failure skips that entry alone and the others have their blocks.
C9_MainWalkFailureIsolated == readFail = {} => MainOneBlockEach

\* C9 on src/main.rs in the runs where nothing fails: every content-eligible
\* file has its one block.
C9_MainHoldsWithoutFailure == (walkFail = {} /\ readFail = {}) => MainOneBlockEach

\* The blocks of the document of src/app.rs, in order: for every
\* content-eligible entry of the collection its text, or the error marker.
ExpectedBlocks ==
    LET eligible == SelectSeq(entries, LAMBDA e : e.include_content)
    IN  [i \in 1..Len(eligible) |->
            IF RelOf(eligible[i]) \in readFail
            THEN <<"<file path=\"">> \o eligible[i].relative_path
                    \o <<"\" error=\"true\">Error reading file: ", "<error>", "</file>">>
            ELSE <<"<file path=\"">> \o eligible[i].relative_path \o <<"\">\n">>
                    \o FileText(RelOf(eligible[i])) \o <<"\n</file>">>]

\* C9 on src/app.rs: a walk failure skips one entry with a warning and every
\* other visited path is classified as ever; in full mode the content text
\* is one block per content-eligible entry, in collection order, an error
\* marker standing for an unreadable file; and the run returns Ok.
C9_AppFailureIsolated ==
    /\ Len(SelectSeq(warnings, LAMBDA w : w = "walk"))
          = Cardinality(Range(yielded) \cap walkFail)
    /\ C3_Retention
    /\ (pc = "done" /\ yielded # <<>>) =>
          /\ result = "Ok"
          /\ entries # <<>> => stdout # <<>>
          /\ (stdout # <<>> /\ ~config.tree_only_output /\ SomeEligible) =>
                stdout = DsOpen \o GenerateTree(entries) \o DsClose \o FcOpen
                            \o Join(ExpectedBlocks, <<"\n\n">>) \o FcClose \o Newline

\* x is the .git directory or lies beneath one.
UnderGit(x) == \E i \in 1..Len(x) : x[i] = <<".", "g", "i", "t">>

\* x is hidden: its name begins with a dot.
Hidden(x) == x # <<>> /\ Last(x)[1] = "."

\* C11: no entry of the collection is .git or beneath it, whatever the lists
\* match; and a hidden path outside .git is walked like any other (yielded
\* once its directory is entered, unless ignored) and kept by the ordinary
\* rules: not matching exclude, and a directory or matching include or
\* tree-only.
C11_GitPrunedHiddenKept ==
    /\ \A i \in 1..Len(entries) : ~UnderGit(RelOf(entries[i]))
    /\ ScanReturned =>
          \A x \in tree :
              (Hidden(x) /\ ~UnderGit(x)) =>
                  /\ (x \notin gitIgnored /\ Parent(x) \in Opened(Range(yielded)))
                        => x \in Range(yielded)
                  /\ x \in Visited =>
                        (x \in Kept <=>
                            /\ ~Matches(config.exclude, x)
                            /\ \/ IsDir(x)
                               \/ Matches(config.include, x)
                               \/ Matches(config.include_in_tree, x))

\* C11's case: the scan returned having visited a path in .git that include
\* or tree-only matches, and having kept a hidden file outside .git.
C11_Witness ==
    /\ ScanReturned
    /\ \E g \in Visited :
          UnderGit(g) /\ (Matches(config.include, g) \/ Matches(config.include_in_tree, g))
    /\ \E h \in Visited : Hidden(h) /\ ~UnderGit(h) /\ h \in Kept

\* The paths a walk of the tree yields as entries, whatever its order: those
\* with no ignored path and no failed directory above them, themselves
\* neither ignored nor failing.
Walked ==
    {x \in tree :
        /\ x \notin walkFail
        /\ \A k \in 1..Len(x) :
              /\ SubSeq(x, 1, k) \notin gitIgnored
              /\ k < Len(x) => SubSeq(x, 1, k) \notin walkFail}

\* The entries the classification gives for the walked paths, as a set.
Classified == UNION {Range(ProcessEntry(scanner, x)) : x \in Walked}

RECURSIVE Ordered(_)
\* The one sequence that lists the entries of S by ascending path.
Ordered(S) ==
    IF S = {} THEN <<>>
    ELSE LET m == CHOOSE m \in S : \A o \in S \ {m} : PathLess(m.path, o.path)
         IN <<m>> \o Ordered(S \ {m})

\* The document the tree and the configuration determine.
Determined ==
    IF Classified = {} THEN <<>>
    ELSE FinalOutput(config, Ordered(Classified), readFail) \o Newline

\* C12: the scan result and the document written are functions of the tree
\* and the configuration alone; the order in which the walker yielded the
\* entries leaves no trace, so two runs on the same tree with the same
\* configuration write the same bytes.
C12_OrderIndependent ==
    /\ ScanReturned => entries = Ordered(Classified)
    /\ (pc = "done" /\ scanner # NoScanner) => stdout = Determined

\* C12's case: a document was written after a walk that yielded two kept
\* siblings in descending order of path.
C12_Witness ==
    /\ pc = "done"
    /\ stdout # <<>>
    /\ \E i, j \in 1..Len(yielded) :
          /\ i < j
          /\ {yielded[i], yielded[j]} \subseteq Kept
          /\ Parent(yielded[i]) = Parent(yielded[j])
          /\ PathLess(yielded[j], yielded[i])

\* The entry of the collection for the parent directory of entries[i], if any.
ParentEntries(i) ==
    {j \in 1..Len(entries) :
        /\ entries[j].path = Front(entries[i].path)
        /\ entries[j].is_dir
        /\ entries[j].depth = entries[i].depth - 1}

\* C13: the scan result is closed under parents: every entry of depth
\* greater than 1 has the entry of its parent directory in the result, and
\* before it, so that its tree line follows its parent's line.
C13_ClosedUnderParents ==
    ScanReturned =>
        \A i \in 1..Len(entries) :
            entries[i].depth > 1 => \E j \in ParentEntries(i) : j < i

\* Closure under parents holds of every scan in which no directory that was
\* visited matches exclude.
C13_ClosedWhenNoDirectoryExcluded ==
    (ScanReturned /\ \A d \in Visited : IsDir(d) => ~Matches(config.exclude, d))
        => \A i \in 1..Len(entries) :
              entries[i].depth > 1 => \E j \in ParentEntries(i) : j < i

====
